---------------------------- MODULE Spec2Model ----------------------------
(***************************************************************************)
(* A model of the adaptive compression benchmark of                        *)
(* src/python_client_benchmark.py: the compression strategy selector, the  *)
(* throughput prober (test_network_speed) and the benchmark executor       *)
(* (run_performance_test).                                                 *)
(*                                                                         *)
(* The specifications share the variables below; each one runs one         *)
(* component and leaves the variables of the others at their idle values:  *)
(*   SpecSel    the selector functions applied to bounded inputs           *)
(*   SpecProbe  test_network_speed, one action per sample                  *)
(*   Spec       run_performance_test, one action per step of a pair        *)
(*   SpecTen    run_performance_test with TEST_RUNS runs of two files      *)
(*   SpecSmall  run_performance_test on one file too short to compress     *)
(*   SpecMain   the probe followed by run_performance_test, as in main()   *)
(*   SpecAgg    calculate_aggregate_statistics                             *)
(*   SpecMon    the resource monitor of src/resource_monitor.py            *)
(*   SpecLife   the session lifecycle of main() and run_demo()             *)
(***************************************************************************)
EXTENDS Integers, Sequences, FiniteSets, TLC

VARIABLES
    \* ---- selector (select_compression_level, ..._for_file)
    sel_pc,          \* "in" | "base" | "file" | "idle"
    sel_speed,       \* network_speed_mbps, a rational <<n, SpeedScale>>
    sel_size,        \* file_size_bytes
    sel_base,        \* base_level
    sel_out,         \* result of select_compression_level
    sel_file_out,    \* result of select_compression_level_for_file
    \* ---- prober (test_network_speed)
    p_pc,            \* "loop" | "returned" | "idle"
    p_i,             \* samples attempted so far (the loop index)
    p_samples,       \* the `samples` argument
    upload_speeds,   \* list of upload_mbps
    download_speeds, \* list of download_mbps
    latencies,       \* list of latency_ms
    p_ret,           \* the returned triple (NoResult before the return)
    p_log,           \* per iteration: what the remote interface did, and
                     \* whether the iteration appended to the three lists
    p_local,         \* local temp files that exist: <<iteration, suffix>>
    p_remote,        \* remote .speedtest objects that exist: iteration
    \* ---- executor (run_performance_test)
    pc,              \* position inside run_performance_test
    cfg,             \* the arguments of the call
    run_num,         \* loop variable of the outer loop
    file_idx,        \* position in test_files of the inner loop
    results,         \* the list of result records
    failed_runs,     \* the failure counter
    orig,            \* test file name -> its content, or NoFile
    remote,          \* test file name -> remote object, or NoFile
    tmp,             \* temp files of the pair: "zst", "tmp", "dat" -> content
    orphans,         \* suffixes of temp files no variable names any more
    cur,             \* locals of the current pair
    env,             \* faults the environment may still inject
    \* ---- aggregator (calculate_aggregate_statistics)
    agg_pc,          \* "in" | "done" | "idle"
    agg_in,          \* the `results` argument
    agg_out,         \* the value returned (NoStats for None)
    \* ---- resource monitor (resource_monitor.py, ResourceMonitor)
    monitoring,      \* self.monitoring
    cpu_samples,     \* self.cpu_samples
    memory_samples,  \* self.memory_samples
    mon_thread,      \* position of _monitor_loop: "test" | "cpu" | "mem" |
                     \* "dead", "none" before start()
    mon_main,        \* position of the thread that owns the monitor: "init"
                     \* | "running" | "gs" | "joining" | "stopped" | "raised"
    mon_ret,         \* what get_stats() or stop() last returned or raised
    \* ---- session lifecycle of main() and run_demo()
    life_fn,         \* "main" | "run_demo"
    life_pc,         \* "create" | "verify" | "body" | "except" | "finally"
                     \* | "exited"
    life_step,       \* position in the try block
    session,         \* "none" | "open" | "closed"
    cleanups,        \* number of session.cleanup() calls made
    life_exit        \* how the function leaves: "running" | "return" |
                     \* "SystemExit" | "Exception" | "KeyboardInterrupt"

varsSel   == <<sel_pc, sel_speed, sel_size, sel_base, sel_out, sel_file_out>>
varsProbe == <<p_pc, p_i, p_samples, upload_speeds, download_speeds,
               latencies, p_ret, p_log, p_local, p_remote>>
varsExec  == <<pc, cfg, run_num, file_idx, results, failed_runs, orig,
               remote, tmp, orphans, cur, env>>
varsAgg   == <<agg_pc, agg_in, agg_out>>
varsMon   == <<monitoring, cpu_samples, memory_samples, mon_thread, mon_main,
               mon_ret>>
varsLife  == <<life_fn, life_pc, life_step, session, cleanups, life_exit>>
vars      == <<varsSel, varsProbe, varsExec, varsAgg, varsMon, varsLife>>

---------------------------------------------------------------------------
(* Bounds of the model.                                                    *)

\* speeds are drawn in steps of 1/SpeedScale MB/s
SpeedScale == 2
\* largest network speed drawn, in MB/s
MaxSpeedMB == 120

\* speeds of fast links, in MB/s: around twice the estimated compression
\* speeds 100, 200 and 500 MB/s
FastSpeedsMB == {200, 201, 250, 400, 401, 1000, 1001}

\* a speed in MB/s is a rational <<numerator, denominator>>
Speeds ==
    { <<n, SpeedScale>> : n \in 0..(MaxSpeedMB * SpeedScale) }
        \cup { <<n, 1>> : n \in FastSpeedsMB }

---------------------------------------------------------------------------
(* The compression strategy selector.                                      *)

\* COMPRESSION_STRATEGY: tier name, min_mbps, level.
COMPRESSION_STRATEGY ==
    { [name |-> "very_fast", min_mbps |-> 100, level |-> 1],
      [name |-> "fast",      min_mbps |-> 50,  level |-> 3],
      [name |-> "medium",    min_mbps |-> 10,  level |-> 6],
      [name |-> "slow",      min_mbps |-> 1,   level |-> 9],
      [name |-> "very_slow", min_mbps |-> 0,   level |-> 15] }

\* sorted(COMPRESSION_STRATEGY.items(), key=min_mbps, reverse=True)
RECURSIVE SortedDesc(_)
SortedDesc(S) ==
    IF S = {} THEN <<>>
    ELSE LET top == CHOOSE t \in S : \A u \in S : u.min_mbps <= t.min_mbps
         IN  <<top>> \o SortedDesc(S \ {top})

\* the tier test with > in place of >=
TierMatchesStrict(speed, config) == speed[1] > config.min_mbps * speed[2]
\* the tier test of the scan: network_speed_mbps >= config['min_mbps']
TierMatches(speed, config) == speed[1] >= config.min_mbps * speed[2]

\* the for loop of select_compression_level: the first tier that matches
RECURSIVE FirstMatch(_, _)
FirstMatch(speed, tiers) ==
    IF tiers = <<>> THEN <<>>
    ELSE IF TierMatches(speed, Head(tiers)) THEN <<Head(tiers)>>
    ELSE FirstMatch(speed, Tail(tiers))

\* select_compression_level: the level of the first matching tier.  When no
\* tier matches (a negative speed) the default level 3 is never returned:
\* printing the unbound `description` raises UnboundLocalError.
select_compression_level(speed) ==
    LET m == FirstMatch(speed, SortedDesc(COMPRESSION_STRATEGY))
    IN  IF m = <<>>
        THEN [raised |-> TRUE,  level |-> 3]
        ELSE [raised |-> FALSE, level |-> m[1].level]

\* 1 MB in bytes
MB == 1024 * 1024

Min(a, b) == IF a < b THEN a ELSE b
Max(a, b) == IF a > b THEN a ELSE b

\* compression_speeds of select_compression_level_for_file: level -> MB/s
compression_speeds == (1 :> 500) @@ (3 :> 200) @@ (6 :> 100) @@ (9 :> 40) @@ (15 :> 10)

\* the lookup with a default of 10 MB/s
EstimatedCompSpeedDefault10(level) ==
    IF level \in DOMAIN compression_speeds THEN compression_speeds[level] ELSE 10
\* compression_speeds.get(selected_level, 100)
EstimatedCompSpeed(level) ==
    IF level \in DOMAIN compression_speeds THEN compression_speeds[level] ELSE 100

\* network_speed_mbps < n, for an integer n
SpeedBelow(speed, n) == speed[1] < n * speed[2]

\* the small-file rule left out
SmallFileLevelUncapped(base_level) == Max(1, base_level - 2)
\* line 267: selected_level = min(selected_level, 1)
SmallFileLevel(base_level) == Min(base_level, 1)

\* the reduction for medium-small files by 1 in place of 2
MediumFileLevelByOne(base_level) == Max(1, base_level - 1)
\* line 270: selected_level = max(1, selected_level - 2)
MediumFileLevel(base_level) == Max(1, base_level - 2)

\* the raise for large files on a slow network without its cap
LargeSlowLevelUncapped(base_level) == base_level + 2
\* line 274: selected_level = min(15, selected_level + 2)
LargeSlowLevel(base_level) == Min(15, base_level + 2)

\* the raise for large files on a medium network with the cap of 15
LargeMidLevelCap15(base_level) == Min(15, base_level + 1)
\* line 276: selected_level = min(9, selected_level + 1)
LargeMidLevel(base_level) == Min(9, base_level + 1)

\* the adjustment by file size and network speed (lines 262-276);
\* file_size_mb is file_size_bytes / 2^20, so it is below n exactly when
\* file_size_bytes is below n * 2^20
SizeAdjust(file_size_bytes, speed, base_level) ==
    IF file_size_bytes < MB THEN SmallFileLevel(base_level)
    ELSE IF file_size_bytes < 10 * MB THEN MediumFileLevel(base_level)
    ELSE IF file_size_bytes > 100 * MB
         THEN IF SpeedBelow(speed, 10) THEN LargeSlowLevel(base_level)
              ELSE IF SpeedBelow(speed, 50) THEN LargeMidLevel(base_level)
              ELSE base_level
    ELSE base_level

\* the throughput guard (lines 280-286):
\* estimated_comp_speed < network_speed_mbps * 0.5
GuardFires(level, speed) == 2 * EstimatedCompSpeed(level) * speed[2] < speed[1]

ThroughputGuard(level, speed) ==
    IF GuardFires(level, speed)
    THEN IF level > 6 THEN 6 ELSE IF level > 3 THEN 3 ELSE level
    ELSE level

\* the clamp without its lower end
ClampLevelUpper(level) == Min(22, level)
\* the clamp to the valid range (line 289)
ClampLevel(level) == Max(1, Min(22, level))

select_compression_level_for_file(file_size_bytes, speed, base_level) ==
    ClampLevel(ThroughputGuard(SizeAdjust(file_size_bytes, speed, base_level),
                               speed))

\* file sizes and base levels the selector is applied to
MaxBaseLevel == 24
SelSizes ==
    {0, 512000, MB - 1, MB, 10 * MB - 1, 10 * MB, 100 * MB, 100 * MB + 1,
     200 * MB}
SelBases == (0 - 2)..MaxBaseLevel

\* select_compression_level applied to the drawn speed
SelectBase ==
    /\ sel_pc = "in"
    /\ sel_out' = select_compression_level(sel_speed)
    /\ sel_pc' = "base"
    /\ UNCHANGED <<sel_speed, sel_size, sel_base, sel_file_out>>
    /\ UNCHANGED <<varsProbe, varsExec, varsAgg, varsMon, varsLife>>

\* select_compression_level_for_file applied to the drawn size, speed and
\* base level
SelectFile ==
    /\ sel_pc = "base"
    /\ sel_file_out' = select_compression_level_for_file(sel_size, sel_speed,
                                                         sel_base)
    /\ sel_pc' = "file"
    /\ UNCHANGED <<sel_speed, sel_size, sel_base, sel_out>>
    /\ UNCHANGED <<varsProbe, varsExec, varsAgg, varsMon, varsLife>>

---------------------------------------------------------------------------
(* Exact rationals <<numerator, denominator>> stand for the floats of the  *)
(* source; a speed in MB/s is such a pair.                                  *)

RAdd(a, b)    == <<a[1] * b[2] + b[1] * a[2], a[2] * b[2]>>
RDivInt(a, n) == <<a[1], a[2] * n>>
REq(a, b)     == a[1] * b[2] = b[1] * a[2]

\* sum(list) of a list of rationals
RECURSIVE RSum(_)
RSum(s) == IF s = <<>> THEN <<0, 1>> ELSE RAdd(Head(s), RSum(Tail(s)))

---------------------------------------------------------------------------
(* The throughput prober: test_network_speed.                              *)

\* NETWORK_TEST_SIZE_MB and NETWORK_TEST_SAMPLES
NETWORK_TEST_SIZE_MB == 5
NETWORK_TEST_SAMPLES == 3

\* largest elapsed time of one transfer, in seconds; 0 is a transfer the
\* clock could not resolve
MaxTime == 2

\* What the remote interface and the clock do in one iteration.  A field
\* the iteration never gets to is "skip" (0 for a time).
SampleOutcomes ==
    { o \in [put: {"ok", "raise"}, up_time: 0..MaxTime,
             get: {"ok", "raise", "skip"}, down_time: 0..MaxTime,
             unlink: {"ok", "raise", "skip"}, partial: BOOLEAN] :
        /\ (o.put = "raise") => (o.up_time = 0 /\ o.get = "skip")
        /\ (o.put = "ok" /\ o.up_time = 0) => (o.get = "skip" /\ ~o.partial)
        /\ (o.put = "ok" /\ o.up_time > 0) => (o.get # "skip")
        /\ (o.get # "ok") => (o.down_time = 0 /\ o.unlink = "skip")
        /\ (o.get = "ok" /\ o.down_time = 0) => (o.unlink = "skip" /\ ~o.partial)
        /\ (o.get = "ok" /\ o.down_time > 0) => (o.unlink # "skip" /\ ~o.partial) }

\* the try block without the download steps
SampleProgressEarly(o) ==
    IF o.put = "raise" THEN "put"
    ELSE IF o.up_time = 0 THEN "upload_mbps"
    ELSE IF o.unlink = "raise" THEN "unlink"
    ELSE "done"
\* How far the try block of one iteration gets (lines 137-168): the line
\* that raises, or "done".
SampleProgress(o) ==
    IF o.put = "raise" THEN "put"                 \* line 145
    ELSE IF o.up_time = 0 THEN "upload_mbps"      \* line 147, ZeroDivisionError
    ELSE IF o.get = "raise" THEN "get"            \* line 152
    ELSE IF o.down_time = 0 THEN "download_mbps"  \* line 154, ZeroDivisionError
    ELSE IF o.unlink = "raise" THEN "unlink"      \* line 168
    ELSE "done"

\* the three appends (lines 159-161) are reached
ReachesAppend(o) == SampleProgress(o) \in {"unlink", "done"}

\* upload_mbps, download_mbps and latency_ms of an iteration (lines 147-157)
UploadMbps(o)   == <<NETWORK_TEST_SIZE_MB, o.up_time>>
DownloadMbps(o) == <<NETWORK_TEST_SIZE_MB, o.down_time>>
LatencyMs(o)    == <<(o.up_time + o.down_time) * 1000, 2>>

\* sum(xs) / len(xs) of lines 178-180
Mean(xs) == RDivInt(RSum(xs), Len(xs))

\* the value returned (lines 174-188)
ProbeResult(ups, downs, lats) ==
    IF ups = <<>>
    THEN [none |-> TRUE, upload |-> <<0, 1>>, download |-> <<0, 1>>,
          latency |-> <<0, 1>>]
    ELSE [none |-> FALSE, upload |-> Mean(ups), download |-> Mean(downs),
          latency |-> Mean(lats)]

NoResult == [none |-> TRUE, upload |-> <<0, 1>>, download |-> <<0, 1>>,
             latency |-> <<0, 1>>]

\* the local temp files iteration i leaves behind: the test file is removed
\* on line 166 and the download file on line 167, both after the appends
LocalLeft(i, o) ==
    LET at == SampleProgress(o)
    IN  IF at \in {"unlink", "done"} THEN {}
        ELSE {<<i, "testdata">>}
             \cup (IF at = "download_mbps" \/ (at = "get" /\ o.partial)
                   THEN {<<i, "tmp">>} ELSE {})

\* the remote object iteration i leaves behind: it is removed on line 168
RemoteLeft(i, o) ==
    LET at == SampleProgress(o)
    IN  IF at = "done" \/ (at = "put" /\ ~o.partial) THEN {} ELSE {i}

\* one iteration of the for loop: the try block and its except/continue
ProbeSample ==
    /\ p_pc = "loop"
    /\ p_i < p_samples
    /\ \E o \in SampleOutcomes :
         /\ p_log' = Append(p_log, [outcome |-> o,
                                    appended |-> ReachesAppend(o)])
         /\ IF ReachesAppend(o)
            THEN /\ upload_speeds'   = Append(upload_speeds, UploadMbps(o))
                 /\ download_speeds' = Append(download_speeds, DownloadMbps(o))
                 /\ latencies'       = Append(latencies, LatencyMs(o))
            ELSE UNCHANGED <<upload_speeds, download_speeds, latencies>>
         /\ p_local'  = p_local \cup LocalLeft(p_i + 1, o)
         /\ p_remote' = p_remote \cup RemoteLeft(p_i + 1, o)
    /\ p_i' = p_i + 1
    /\ UNCHANGED <<p_pc, p_samples, p_ret>>
    /\ UNCHANGED <<varsSel, varsExec, varsAgg, varsMon, varsLife>>

\* the loop is over: lines 174-188
ProbeReturn ==
    /\ p_pc = "loop"
    /\ p_i = p_samples
    /\ p_ret' = ProbeResult(upload_speeds, download_speeds, latencies)
    /\ p_pc' = "returned"
    /\ UNCHANGED <<p_i, p_samples, upload_speeds, download_speeds,
                   latencies, p_log, p_local, p_remote>>
    /\ UNCHANGED <<varsSel, varsExec, varsAgg, varsMon, varsLife>>

---------------------------------------------------------------------------
(* Files, the codec and the environment of the benchmark executor.         *)

\* A file's content: its byte length, and the bytes up to what the checks
\* can tell apart.  z: the bytes are a zstd frame; psize, pvar: length and
\* variant of the payload (of the file itself when it is no frame).
Plain(size, var) == [z |-> FALSE, size |-> size, psize |-> size, pvar |-> var]
NoFile == [z |-> FALSE, size |-> 0 - 1, psize |-> 0 - 1, pvar |-> 0]
Exists(f) == f.size >= 0

\* the test files of TEST_FILES_DIR: a 4-byte file and an empty one
FileNames == {"a", "e", "s"}
InitialFiles ==
    ("a" :> Plain(4, 0)) @@ ("e" :> Plain(0, 0)) @@ ("s" :> Plain(2, 0))

\* verify_file_exists: the path exists, is a regular file and is readable
verify_file_exists(f) == Exists(f)

\* calculate_file_checksum: SHA-256 of the bytes, taken as collision free
calculate_file_checksum(f) == <<f.z, f.size, f.psize, f.pvar>>
NoChecksum == <<>>

\* the length of the frame zstd writes for a payload: a frame carries a
\* header, so a short payload grows and a longer one shrinks
FrameSize(c) == IF c.size >= 4 THEN c.size \div 2 ELSE c.size + 1

\* cctx.copy_stream(f_in, f_out) of compress_file_zstd
Compress(c) == [z |-> TRUE, size |-> FrameSize(c), psize |-> c.size,
                pvar |-> c.pvar]
\* dctx.copy_stream(f_in, f_out) of decompress_file_zstd, for a valid frame
Decompress(f) == Plain(f.psize, f.pvar)

\* a file opened for writing and never filled
Empty == Plain(0, 0)

\* what a faulty store makes of the bytes it was given
Damaged(f, fault) ==
    CASE fault \in {"put_empty", "get_empty"} -> Empty
      [] fault \in {"put_resized", "get_resized"} ->
            IF f.z THEN [f EXCEPT !.size = @ + 1, !.z = FALSE]
            ELSE Plain(f.size + 1, f.pvar)
      [] fault = "get_flipped" -> [f EXCEPT !.pvar = 1 - @]
      [] fault = "get_garbled" -> [f EXCEPT !.z = FALSE]
      [] fault = "get_payload_resized" -> [f EXCEPT !.psize = @ + 1]
      [] OTHER -> f

\* a remote data object: its bytes and the compression metadata attached
\* ("none", "alg": the algorithm only, "full": all four attributes)
NoObj == [obj |-> NoFile, meta |-> "none"]
MetaRank(m) == CASE m = "none" -> 0 [] m = "alg" -> 1 [] OTHER -> 2
MetaJoin(a, b) == IF MetaRank(a) >= MetaRank(b) THEN a ELSE b

\* the faults of the remote store, the codec and the local file system
FaultKinds ==
    {"compress_raise", "compress_noartifact",
     "put_raise", "put_empty", "put_resized", "stat_raise",
     "meta_none", "meta_partial", "meta_read_raise",
     "get_raise", "get_raise_partial", "get_empty", "get_resized",
     "get_flipped", "get_garbled", "get_payload_resized",
     "unlink_raise"}

\* faults one behaviour may hold
MaxFaults == 2
\* runs of the benchmark
MaxRuns == 2

\* the faults among ks the environment may inject now, and "none"
Opt(ks) == {"none"} \cup {k \in ks : env.budget > 0 /\ k \in env.kinds}
Cost(k) == IF k = "none" THEN 0 ELSE 1
Use(k)  == [env EXCEPT !.budget = @ - Cost(k)]
\* the same for a second fault of one step, after fault k
OptAfter(k, ks) ==
    {"none"} \cup {x \in ks : env.budget - Cost(k) > 0 /\ x \in env.kinds}
UseBoth(k, u) == [env EXCEPT !.budget = @ - Cost(k) - Cost(u)]
Note(c, k) == IF k = "none" THEN c ELSE [c EXCEPT !.faults = @ \cup {k}]

---------------------------------------------------------------------------
(* The benchmark executor: run_performance_test.                           *)

TEST_RUNS == 5
ENABLE_ADAPTIVE_COMPRESSION == TRUE

\* network_speed_mbps is None (<<>>) or a speed (<<speed>>); None and 0 are
\* falsy
Truthy(speed_opt) == speed_opt # <<>> /\ speed_opt[1][1] # 0

\* a level that follows the estimate in the first run only
LevelForFirstRun(c, original_size) ==
    IF ENABLE_ADAPTIVE_COMPRESSION /\ Truthy(c.network_speed_mbps) /\ run_num = 1
    THEN select_compression_level_for_file(original_size,
             c.network_speed_mbps[1], c.base_compression_level)
    ELSE 0
\* the compression level of a file (lines 603-608)
LevelFor(c, original_size) ==
    IF ENABLE_ADAPTIVE_COMPRESSION /\ Truthy(c.network_speed_mbps)
    THEN select_compression_level_for_file(original_size,
             c.network_speed_mbps[1], c.base_compression_level)
    ELSE 0

\* compression_ratio (line 631), a rational
RatioOf(transfer_size, original_size) ==
    IF original_size > 0
    THEN <<(original_size - transfer_size) * 100, original_size>>
    ELSE <<0, 1>>

\* the locals of a (run, file) pair before its first statement; the
\* variable download_file outlives the pair that bound it
FreshPair(dl_bound) ==
    [original_size |-> 0, original_checksum |-> NoChecksum,
     compression_level |-> 0, upload_file |-> "none",
     transfer_size |-> 0, compression_ratio |-> <<0, 1>>,
     decompressed_file |-> "none", decompress_time |-> "zero",
     final_size |-> 0, final_checksum |-> NoChecksum,
     dl_bound |-> dl_bound, dl_mine |-> FALSE,
     \* what happened to the pair
     outcome |-> "none", counted |-> 0, verified |-> FALSE,
     faults |-> {}, made |-> {}, orig_bytes |-> NoFile,
     final_bytes |-> NoFile]

TestFile == cfg.test_files[file_idx]

\* the bytes upload_file names
UploadBytes == IF cur.upload_file = "orig" THEN orig[TestFile] ELSE tmp.zst

\* failed_runs += 1 for the current pair
Counted(c) == [c EXCEPT !.outcome = "failed", !.counted = @ + 1]

\* verify_irods_upload (lines 345-359): stat is the size read, <<>> when
\* the lookup raised
\* a check that passes whatever was stored
verify_irods_upload_any(stat, expected_size) == TRUE
\* the check without the test for size 0
verify_irods_upload_nz(stat, expected_size) ==
    stat # <<>> /\ stat[1] = expected_size
verify_irods_upload(stat, expected_size) ==
    /\ stat # <<>>
    /\ stat[1] # 0
    /\ stat[1] = expected_size

\* verify_local_download (lines 361-371)
verify_local_download(f, expected_size) ==
    /\ Exists(f)
    /\ ~(f.size = 0 \/ f.size # expected_size)

\* verification_passed with the size test only
VerificationPassedSizeOnly(c, enable_verification) ==
    c.final_size = c.original_size
\* verification_passed (lines 726-731)
VerificationPassed(c, enable_verification) ==
    /\ c.final_size = c.original_size
    /\ enable_verification => (c.original_checksum = c.final_checksum)

\* lines 591-632: the file is checked and measured, its level selected and
\* the file compressed
Prepare ==
    /\ pc = "prepare"
    /\ LET o == orig[TestFile] IN
       IF ~verify_file_exists(o)
       THEN /\ failed_runs' = failed_runs + 1
            /\ cur' = Counted(cur)
            /\ pc' = "end"
            /\ UNCHANGED <<tmp, env>>
       ELSE LET level == LevelFor(cfg, o.size)
                c1 == [cur EXCEPT
                         !.orig_bytes = o,
                         !.original_size = o.size,
                         !.original_checksum =
                             IF cfg.enable_verification
                             THEN calculate_file_checksum(o) ELSE NoChecksum,
                         !.compression_level = level]
            IN  IF level = 0
                THEN /\ cur' = [c1 EXCEPT !.upload_file = "orig",
                                          !.transfer_size = o.size,
                                          !.compression_ratio = <<0, 1>>]
                     /\ pc' = "upload"
                     /\ UNCHANGED <<tmp, env, failed_runs>>
                ELSE \E k \in Opt({"compress_raise", "compress_noartifact"}) :
                       /\ env' = Use(k)
                       /\ CASE k = "compress_raise" ->
                                 \* line 622 is outside the try block
                                 /\ tmp' = [tmp EXCEPT !.zst = Empty]
                                 /\ cur' = Note([c1 EXCEPT !.upload_file = "zst",
                                                   !.made = @ \cup {"zst"}], k)
                                 /\ pc' = "raised"
                                 /\ UNCHANGED failed_runs
                            [] k = "compress_noartifact" ->
                                 /\ tmp' = [tmp EXCEPT !.zst = NoFile]
                                 /\ cur' = Counted(Note([c1 EXCEPT
                                                 !.upload_file = "zst"], k))
                                 /\ failed_runs' = failed_runs + 1
                                 /\ pc' = "end"
                            [] OTHER ->
                                 LET z == Compress(o) IN
                                 /\ tmp' = [tmp EXCEPT !.zst = z]
                                 /\ cur' = [c1 EXCEPT
                                      !.upload_file = "zst",
                                      !.made = @ \cup {"zst"},
                                      !.transfer_size = z.size,
                                      !.compression_ratio = RatioOf(z.size, o.size)]
                                 /\ pc' = "upload"
                                 /\ UNCHANGED failed_runs
    /\ UNCHANGED <<cfg, run_num, file_idx, results, orig, remote, orphans>>
    /\ UNCHANGED <<varsSel, varsProbe, varsAgg, varsMon, varsLife>>

\* A failure branch after the upload: the counter is incremented, the local
\* files are left as t and the remote object is unlinked; when that unlink
\* raises, the exception reaches the handler of the pair.
FailAndUnlink(c, t, k) ==
    \E u \in OptAfter(k, {"unlink_raise"}) :
       /\ env' = UseBoth(k, u)
       /\ failed_runs' = failed_runs + 1
       /\ tmp' = t
       /\ IF u = "none"
          THEN /\ remote' = [remote EXCEPT ![TestFile] = NoObj]
               /\ cur' = Counted(c)
               /\ pc' = "end"
          ELSE /\ UNCHANGED remote
               /\ cur' = Note(Counted(c), u)
               /\ pc' = "handler"

\* os.unlink(upload_file) when the upload file is the compressed temp file
DropUpload(t, c) ==
    IF c.compression_level > 0 THEN [t EXCEPT !.zst = NoFile] ELSE t

\* lines 638-657: put, then verify_irods_upload
Upload ==
    /\ pc = "upload"
    /\ \E k \in Opt({"put_raise", "put_empty", "put_resized", "stat_raise"}) :
         LET stored == Damaged(UploadBytes, k)
             obj    == [obj |-> stored, meta |-> remote[TestFile].meta]
             stat   == IF k = "stat_raise" THEN <<>> ELSE <<stored.size>>
             c1     == Note(cur, k)
             c2     == [c1 EXCEPT !.made = @ \cup {"remote"}]
         IN  /\ env' = Use(k)
             /\ IF k = "put_raise"
                THEN /\ pc' = "handler"
                     /\ cur' = c1
                     /\ UNCHANGED <<remote, tmp, failed_runs>>
                ELSE /\ remote' = [remote EXCEPT ![TestFile] = obj]
                     /\ IF verify_irods_upload(stat, cur.transfer_size)
                        THEN /\ pc' = "meta"
                             /\ cur' = c2
                             /\ UNCHANGED <<tmp, failed_runs>>
                        ELSE /\ failed_runs' = failed_runs + 1
                             /\ tmp' = DropUpload(tmp, cur)
                             /\ cur' = Counted(c2)
                             /\ pc' = "end"
    /\ UNCHANGED <<cfg, run_num, file_idx, results, orig, orphans>>
    /\ UNCHANGED <<varsSel, varsProbe, varsAgg, varsMon, varsLife>>

\* lines 661-670: add_compression_metadata; its result is not looked at
Meta ==
    /\ pc = "meta"
    /\ IF cfg.enable_metadata
       THEN \E k \in Opt({"meta_none", "meta_partial"}) :
              LET written == CASE k = "meta_none" -> "none"
                               [] k = "meta_partial" -> "alg"
                               [] OTHER -> "full"
              IN  /\ remote' = [remote EXCEPT
                                  ![TestFile].meta = MetaJoin(@, written)]
                  /\ env' = Use(k)
                  /\ cur' = Note(cur, k)
       ELSE UNCHANGED <<remote, env, cur>>
    /\ pc' = "download"
    /\ UNCHANGED <<cfg, run_num, file_idx, results, failed_runs, orig, tmp,
                   orphans>>
    /\ UNCHANGED <<varsSel, varsProbe, varsAgg, varsMon, varsLife>>

\* lines 672-686: get into a fresh temp file, then verify_local_download
Download ==
    /\ pc = "download"
    /\ \E k \in Opt({"get_raise", "get_raise_partial", "get_empty",
                     "get_resized", "get_flipped"}
                    \cup (IF remote[TestFile].obj.z
                          THEN {"get_garbled", "get_payload_resized"}
                          ELSE {})) :
         LET c1 == Note([cur EXCEPT !.dl_bound = TRUE, !.dl_mine = TRUE], k)
             c2 == [c1 EXCEPT !.made = @ \cup {"tmp"}]
             d  == Damaged(remote[TestFile].obj, k)
         IN  IF k \in {"get_raise", "get_raise_partial"}
             THEN /\ tmp' = [tmp EXCEPT !.tmp = IF k = "get_raise_partial"
                                                THEN Empty ELSE NoFile]
                  /\ cur' = IF k = "get_raise_partial" THEN c2 ELSE c1
                  /\ env' = Use(k)
                  /\ pc' = "handler"
                  /\ UNCHANGED <<remote, failed_runs>>
             ELSE IF verify_local_download(d, cur.transfer_size)
             THEN /\ tmp' = [tmp EXCEPT !.tmp = d]
                  /\ cur' = c2
                  /\ env' = Use(k)
                  /\ pc' = "decompress"
                  /\ UNCHANGED <<remote, failed_runs>>
             ELSE FailAndUnlink(c2, DropUpload([tmp EXCEPT !.tmp = d], cur), k)
    /\ orphans' = IF Exists(tmp.tmp) THEN orphans \cup {"tmp"} ELSE orphans
    /\ UNCHANGED <<cfg, run_num, file_idx, results, orig>>
    /\ UNCHANGED <<varsSel, varsProbe, varsAgg, varsMon, varsLife>>

\* lines 688-715: the decompression, and the check that its output exists
DecompressStep ==
    /\ pc = "decompress"
    /\ \E k \in Opt(IF cur.compression_level > 0 /\ cfg.enable_metadata
                    THEN {"meta_read_raise"} ELSE {}) :
         LET level == cur.compression_level
             \* read_compression_metadata (lines 461-482)
             meta_success == /\ k = "none"
                             /\ remote[TestFile].meta # "none"
             runs_codec == IF cfg.enable_metadata THEN meta_success ELSE TRUE
             c1 == Note([cur EXCEPT
                      !.decompressed_file = IF level = 0 THEN "tmp" ELSE "dat",
                      !.decompress_time = IF level = 0 THEN "zero"
                                          ELSE "measured"], k)
             c2 == [c1 EXCEPT !.made = @ \cup {"dat"}]
         IN  IF level = 0
             THEN \* the downloaded file is the final file; it exists
                  /\ cur' = c1
                  /\ pc' = "verify"
                  /\ UNCHANGED <<tmp, remote, failed_runs, env>>
             ELSE IF runs_codec /\ ~tmp.tmp.z
             THEN \* the codec raises on bytes that are no frame; the output
                  \* file was opened before
                  /\ tmp' = [tmp EXCEPT !.dat = Empty]
                  /\ cur' = c2
                  /\ env' = Use(k)
                  /\ pc' = "handler"
                  /\ UNCHANGED <<remote, failed_runs>>
             ELSE IF runs_codec
             THEN /\ tmp' = [tmp EXCEPT !.dat = Decompress(tmp.tmp)]
                  /\ cur' = c2
                  /\ env' = Use(k)
                  /\ pc' = "verify"
                  /\ UNCHANGED <<remote, failed_runs>>
             ELSE \* nothing was decompressed: decompressed_file is missing
                  FailAndUnlink(c1, [tmp EXCEPT !.zst = NoFile,
                                                !.tmp = NoFile], k)
    /\ UNCHANGED <<cfg, run_num, file_idx, results, orig, orphans>>
    /\ UNCHANGED <<varsSel, varsProbe, varsAgg, varsMon, varsLife>>

\* the bytes decompressed_file names
FinalBytes == IF cur.decompressed_file = "tmp" THEN tmp.tmp ELSE tmp.dat

\* lines 717-740: the final file is measured and compared with the original
Verify ==
    /\ pc = "verify"
    /\ LET dec == FinalBytes
           c1  == [cur EXCEPT
                     !.final_bytes = dec,
                     !.final_size = dec.size,
                     !.final_checksum =
                         IF cfg.enable_verification
                         THEN calculate_file_checksum(dec) ELSE NoChecksum]
           t1  == IF cur.compression_level > 0 /\ cur.decompressed_file # "tmp"
                  THEN [tmp EXCEPT !.dat = NoFile] ELSE tmp
       IN  IF VerificationPassed(c1, cfg.enable_verification)
           THEN /\ cur' = [c1 EXCEPT !.verified = TRUE]
                /\ tmp' = t1
                /\ pc' = "record"
                /\ UNCHANGED <<remote, failed_runs, env>>
           ELSE FailAndUnlink(c1, DropUpload([t1 EXCEPT !.tmp = NoFile], cur),
                              "none")
    /\ UNCHANGED <<cfg, run_num, file_idx, results, orig, orphans>>
    /\ UNCHANGED <<varsSel, varsProbe, varsAgg, varsMon, varsLife>>

\* a record whose decompress_time is always a clock difference
ResultRecordTimed ==
    [run |-> run_num, filename |-> TestFile,
     original_size_bytes |-> cur.original_size,
     transfer_size_bytes |-> cur.transfer_size,
     compression_level |-> cur.compression_level,
     compression_ratio |-> cur.compression_ratio,
     decompress_time |-> "measured"]
\* the record appended on lines 755-768 (the clock readings left out)
ResultRecord ==
    [run |-> run_num, filename |-> TestFile,
     original_size_bytes |-> cur.original_size,
     transfer_size_bytes |-> cur.transfer_size,
     compression_level |-> cur.compression_level,
     compression_ratio |-> cur.compression_ratio,
     decompress_time |-> cur.decompress_time]

\* lines 742-768: the cleanup of a verified pair, then its record
Record ==
    /\ pc = "record"
    /\ \E u \in Opt({"unlink_raise"}) :
         /\ env' = Use(u)
         /\ tmp' = DropUpload([tmp EXCEPT !.tmp = NoFile], cur)
         /\ IF u = "none"
            THEN /\ remote' = [remote EXCEPT ![TestFile] = NoObj]
                 /\ results' = Append(results, ResultRecord)
                 /\ cur' = [cur EXCEPT !.outcome = "recorded"]
                 /\ pc' = "end"
            ELSE /\ UNCHANGED <<remote, results>>
                 /\ cur' = Note(cur, u)
                 /\ pc' = "handler"
    /\ UNCHANGED <<cfg, run_num, file_idx, failed_runs, orig, orphans>>
    /\ UNCHANGED <<varsSel, varsProbe, varsAgg, varsMon, varsLife>>

\* lines 770-782: the except block of the pair
Handler ==
    /\ pc = "handler"
    /\ failed_runs' = failed_runs + 1
    /\ \E u \in Opt(IF Exists(remote[TestFile].obj)
                    THEN {"unlink_raise"} ELSE {}) :
         /\ env' = Use(u)
         \* if os.path.exists(upload_file): os.unlink(upload_file)
         /\ orig' = IF cur.upload_file = "orig"
                    THEN [orig EXCEPT ![TestFile] = NoFile] ELSE orig
         \* ... and the same for download_file, when the name is bound
         /\ tmp' = [tmp EXCEPT
                      !.zst = IF cur.upload_file = "zst" THEN NoFile ELSE @,
                      !.tmp = IF cur.dl_bound THEN NoFile ELSE @]
         \* the remote unlink; what it raises is swallowed
         /\ remote' = IF u = "none"
                      THEN [remote EXCEPT ![TestFile] = NoObj] ELSE remote
         /\ cur' = Counted(Note(cur, u))
    /\ pc' = "end"
    /\ UNCHANGED <<cfg, run_num, file_idx, results, orphans>>
    /\ UNCHANGED <<varsSel, varsProbe, varsAgg, varsMon, varsLife>>

\* the loops with a failure-ratio threshold of 50%
HasNextBelowThreshold(r, i, c) ==
    /\ i < Len(c.test_files) \/ r < c.test_runs
    /\ failed_runs * 100 <= 50 * (c.test_runs * Len(c.test_files))
\* the two for loops (lines 589-590) have a pair left after (r, i)
HasNext(r, i, c) == i < Len(c.test_files) \/ r < c.test_runs

\* continue: the next (run, file) pair
NextPair ==
    /\ pc = "end"
    /\ HasNext(run_num, file_idx, cfg)
    /\ IF file_idx < Len(cfg.test_files)
       THEN /\ file_idx' = file_idx + 1
            /\ UNCHANGED run_num
       ELSE /\ file_idx' = 1
            /\ run_num' = run_num + 1
    /\ cur' = FreshPair(cur.dl_bound)
    /\ tmp' = [tmp EXCEPT !.zst = NoFile, !.dat = NoFile]
    /\ orphans' = orphans \cup {x \in {"zst", "dat"} : Exists(tmp[x])}
    /\ pc' = "prepare"
    /\ UNCHANGED <<cfg, results, failed_runs, orig, remote, env>>
    /\ UNCHANGED <<varsSel, varsProbe, varsAgg, varsMon, varsLife>>

\* lines 784-787: return results
Return ==
    /\ pc = "end"
    /\ ~HasNext(run_num, file_idx, cfg)
    /\ pc' = "returned"
    /\ UNCHANGED <<cfg, run_num, file_idx, results, failed_runs, orig, remote,
                   tmp, orphans, cur, env>>
    /\ UNCHANGED <<varsSel, varsProbe, varsAgg, varsMon, varsLife>>

---------------------------------------------------------------------------
(* The aggregator: calculate_aggregate_statistics.                         *)

\* longest record list the aggregator is applied to
MaxRecords == 3

\* file names and elapsed times (seconds) of the records
AggNames == {"a", "e"}
AggUploadTimes == {0, 3}
AggDownloadTimes == {0, 2}

\* upload_throughput / download_throughput of a record (lines 749-750), for
\* a transfer of size_mb MB
Throughput(size_mb, time) == IF time > 0 THEN <<size_mb, time>> ELSE <<0, 1>>

\* records as run_performance_test appends them (lines 755-768): a 6 MB
\* transfer, compressed (z) or not
AggRecords ==
    { [filename |-> n, upload_time |-> ut, download_time |-> dt,
       compress_time |-> IF z THEN 2 ELSE 0,
       decompress_time |-> IF z THEN 1 ELSE 0,
       upload_throughput_mbps |-> Throughput(6, ut),
       download_throughput_mbps |-> Throughput(6, dt)] :
        n \in AggNames, ut \in AggUploadTimes, dt \in AggDownloadTimes,
        z \in BOOLEAN }

RECURSIVE SeqsUpTo(_, _)
\* the sequences over S of length at most n
SeqsUpTo(S, n) ==
    IF n = 0 THEN {<<>>}
    ELSE LET shorter == SeqsUpTo(S, n - 1)
         IN  shorter \cup { Append(q, x) : q \in shorter, x \in S }

RECURSIVE SumField(_, _)
\* sum(r[f] for r in results), f a field of numbers
SumField(rs, f) ==
    IF rs = <<>> THEN 0 ELSE Head(rs)[f] + SumField(Tail(rs), f)

\* sum(r[f] for r in results), f a field of speeds
SumSpeedField(rs, f) == RSum([i \in 1..Len(rs) |-> rs[i][f]])

\* the number of distinct file names in place of the number of records
TotalRunsDistinct(rs) == Cardinality({ rs[i].filename : i \in 1..Len(rs) })
\* total_runs = len(results)
TotalRuns(rs) == Len(rs)

\* a new file name put in front of the names seen before
GroupAddFront(files_data, r) ==
    IF \E k \in 1..Len(files_data) : files_data[k].fname = r.filename
    THEN [k \in 1..Len(files_data) |->
            IF files_data[k].fname = r.filename
            THEN [files_data[k] EXCEPT !.rows = Append(@, r)]
            ELSE files_data[k]]
    ELSE <<[fname |-> r.filename, rows |-> <<r>>]>> \o files_data
\* one iteration of the grouping loop (lines 797-801) on the insertion
\* ordered dict files_data, kept as a list of [fname, rows]
GroupAdd(files_data, r) ==
    IF \E k \in 1..Len(files_data) : files_data[k].fname = r.filename
    THEN [k \in 1..Len(files_data) |->
            IF files_data[k].fname = r.filename
            THEN [files_data[k] EXCEPT !.rows = Append(@, r)]
            ELSE files_data[k]]
    ELSE Append(files_data, [fname |-> r.filename, rows |-> <<r>>])

RECURSIVE GroupByFilename(_, _)
\* the grouping loop (lines 796-801)
GroupByFilename(rs, files_data) ==
    IF rs = <<>> THEN files_data
    ELSE GroupByFilename(Tail(rs), GroupAdd(files_data, Head(rs)))

\* return None
NoStats == [none |-> TRUE]

calculate_aggregate_statistics(rs) ==
    IF rs = <<>> THEN NoStats
    ELSE LET total_runs == TotalRuns(rs)
             files_data == GroupByFilename(rs, <<>>)
             total_upload_time == SumField(rs, "upload_time")
             total_download_time == SumField(rs, "download_time")
         IN  [none |-> FALSE,
              total_runs |-> total_runs,
              files_tested |-> [k \in 1..Len(files_data) |->
                                   files_data[k].fname],
              total_upload_time |-> total_upload_time,
              total_download_time |-> total_download_time,
              total_compress_time |-> SumField(rs, "compress_time"),
              total_decompress_time |-> SumField(rs, "decompress_time"),
              avg_upload_time |-> <<total_upload_time, total_runs>>,
              avg_download_time |-> <<total_download_time, total_runs>>,
              avg_upload_throughput |->
                  RDivInt(SumSpeedField(rs, "upload_throughput_mbps"),
                          total_runs),
              avg_download_throughput |->
                  RDivInt(SumSpeedField(rs, "download_throughput_mbps"),
                          total_runs),
              files_data |-> files_data]

\* calculate_aggregate_statistics applied to the drawn record list
Aggregate ==
    /\ agg_pc = "in"
    /\ agg_out' = calculate_aggregate_statistics(agg_in)
    /\ agg_pc' = "done"
    /\ UNCHANGED agg_in
    /\ UNCHANGED <<varsSel, varsProbe, varsExec, varsMon, varsLife>>

---------------------------------------------------------------------------
(* The resource monitor: resource_monitor.py, class ResourceMonitor. The   *)
(* monitor loop runs in its own thread; start(), get_stats() and stop()    *)
(* run in the thread that owns the monitor.                                *)

\* the number of samples the loop takes
MaxMonSamples == 2
\* readings of cpu_percent() and of memory_info().rss in MB
SampleValues == {1, 3}

NoMonResult ==
    [kind |-> "unset", avg_cpu |-> <<0, 1>>, avg_memory |-> <<0, 1>>,
     samples |-> 0]

RECURSIVE SumSeq(_)
SumSeq(xs) == IF xs = <<>> THEN 0 ELSE Head(xs) + SumSeq(Tail(xs))
\* sum(xs) / len(xs), as the pair of the sum and the length
AvgOf(xs) == <<SumSeq(xs), Len(xs)>>
\* sum(xs) / len(xs) if xs else 0
AvgOrZero(xs) == IF xs # <<>> THEN AvgOf(xs) ELSE <<0, 1>>

\* start() (lines 43-62)
MonStart ==
    /\ mon_main = "init"
    /\ monitoring' = TRUE
    /\ cpu_samples' = <<>>
    /\ memory_samples' = <<>>
    /\ mon_thread' = "test"
    /\ mon_main' = "running"
    /\ UNCHANGED mon_ret
    /\ UNCHANGED <<varsSel, varsProbe, varsExec, varsAgg, varsLife>>

\* _monitor_loop: the test of `while self.monitoring` (line 101)
LoopTest ==
    /\ mon_thread = "test"
    /\ monitoring => Len(cpu_samples) < MaxMonSamples
    /\ mon_thread' = IF monitoring THEN "cpu" ELSE "dead"
    /\ UNCHANGED <<monitoring, cpu_samples, memory_samples, mon_main, mon_ret>>
    /\ UNCHANGED <<varsSel, varsProbe, varsExec, varsAgg, varsLife>>

\* _monitor_loop: cpu_percent() and the first append (lines 104-105); a
\* psutil error leaves the loop (lines 116-117)
LoopCpu ==
    /\ mon_thread = "cpu"
    /\ \/ \E v \in SampleValues :
            /\ cpu_samples' = Append(cpu_samples, v)
            /\ mon_thread' = "mem"
       \/ /\ mon_thread' = "dead"
          /\ UNCHANGED cpu_samples
    /\ UNCHANGED <<monitoring, memory_samples, mon_main, mon_ret>>
    /\ UNCHANGED <<varsSel, varsProbe, varsExec, varsAgg, varsLife>>

\* _monitor_loop: memory_info(), the second append and the sleep (lines
\* 108-119); a psutil error leaves the loop
LoopMem ==
    /\ mon_thread = "mem"
    /\ \/ \E v \in SampleValues :
            /\ memory_samples' = Append(memory_samples, v)
            /\ mon_thread' = "test"
       \/ /\ mon_thread' = "dead"
          /\ UNCHANGED memory_samples
    /\ UNCHANGED <<monitoring, cpu_samples, mon_main, mon_ret>>
    /\ UNCHANGED <<varsSel, varsProbe, varsExec, varsAgg, varsLife>>

\* get_stats(): the test for no sample and the CPU average (lines 123-126)
GetStatsBegin ==
    /\ mon_main = "running"
    /\ IF cpu_samples = <<>>
       THEN /\ mon_ret' = [NoMonResult EXCEPT !.kind = "None"]
            /\ mon_main' = "running"
       ELSE /\ mon_ret' = [NoMonResult EXCEPT !.kind = "pending",
                                              !.avg_cpu = AvgOf(cpu_samples)]
            /\ mon_main' = "gs"
    /\ UNCHANGED <<monitoring, cpu_samples, memory_samples, mon_thread>>
    /\ UNCHANGED <<varsSel, varsProbe, varsExec, varsAgg, varsLife>>

\* get_stats(): the memory average and the returned dict (lines 127-134)
GetStatsEnd ==
    /\ mon_main = "gs"
    /\ IF memory_samples = <<>>
       THEN /\ mon_ret' = [mon_ret EXCEPT !.kind = "ZeroDivisionError"]
            /\ mon_main' = "raised"
       ELSE /\ mon_ret' = [kind |-> "stats", avg_cpu |-> mon_ret.avg_cpu,
                           avg_memory |-> AvgOf(memory_samples),
                           samples |-> Len(cpu_samples)]
            /\ mon_main' = "running"
    /\ UNCHANGED <<monitoring, cpu_samples, memory_samples, mon_thread>>
    /\ UNCHANGED <<varsSel, varsProbe, varsExec, varsAgg, varsLife>>

\* stop(): self.monitoring = False, up to the join (lines 67-70)
MonStop ==
    /\ mon_main = "running"
    /\ monitoring' = FALSE
    /\ mon_main' = "joining"
    /\ UNCHANGED <<cpu_samples, memory_samples, mon_thread, mon_ret>>
    /\ UNCHANGED <<varsSel, varsProbe, varsExec, varsAgg, varsLife>>

\* stop(): thread.join(timeout=2.0) returns, because the thread has ended
\* or because the timeout has passed, and the statistics are computed
\* (lines 71-97)
MonJoin ==
    /\ mon_main = "joining"
    /\ \E timed_out \in BOOLEAN : mon_thread = "dead" \/ timed_out
    /\ mon_ret' = [kind |-> "stopped", avg_cpu |-> AvgOrZero(cpu_samples),
                   avg_memory |-> AvgOrZero(memory_samples),
                   samples |-> Len(cpu_samples)]
    /\ mon_main' = "stopped"
    /\ UNCHANGED <<monitoring, cpu_samples, memory_samples, mon_thread>>
    /\ UNCHANGED <<varsSel, varsProbe, varsExec, varsAgg, varsLife>>

IdleMon ==
    /\ monitoring = FALSE
    /\ cpu_samples = <<>>
    /\ memory_samples = <<>>
    /\ mon_thread = "none"
    /\ mon_main = "idle"
    /\ mon_ret = NoMonResult

---------------------------------------------------------------------------
(* The session lifecycle of main() (python_client_benchmark.py) and of     *)
(* run_demo() (compression_demo.py): the statements between create_session *)
(* and the end of the function, each with the ways it can end.             *)

LifeFns == {"main", "run_demo"}

\* the statements of the try block; `leaves` is how a statement can leave
\* the function by itself, `inline` whether session.cleanup() is called
\* just before it does
MainSteps ==
    << [name |-> "cleanup_irods_directory", leaves |-> {}, inline |-> FALSE],
       [name |-> "test_network_speed", leaves |-> {}, inline |-> FALSE],
       [name |-> "run_performance_test", leaves |-> {"return"},
        inline |-> FALSE],
       [name |-> "cleanup_irods_directory", leaves |-> {}, inline |-> FALSE],
       [name |-> "monitor.stop", leaves |-> {}, inline |-> FALSE],
       [name |-> "save_results", leaves |-> {}, inline |-> FALSE] >>
DemoSteps ==
    << [name |-> "cleanup_irods_directory", leaves |-> {}, inline |-> FALSE],
       [name |-> "run_performance_test", leaves |-> {"return"},
        inline |-> TRUE],
       [name |-> "cleanup_irods_directory", leaves |-> {}, inline |-> FALSE],
       [name |-> "test_network_speed", leaves |-> {"SystemExit"},
        inline |-> TRUE],
       [name |-> "cleanup_irods_directory", leaves |-> {}, inline |-> FALSE],
       [name |-> "run_performance_test", leaves |-> {"return"},
        inline |-> TRUE],
       [name |-> "cleanup_irods_directory", leaves |-> {}, inline |-> FALSE],
       [name |-> "generate_comparison_graphs", leaves |-> {},
        inline |-> FALSE] >>
LifeSteps(fn) == IF fn = "main" THEN MainSteps ELSE DemoSteps

\* session = create_session(): the session, or sys.exit(1)
LifeCreate ==
    /\ life_pc = "create"
    /\ \E o \in {"ok", "SystemExit", "KeyboardInterrupt"} :
         IF o = "ok"
         THEN /\ session' = "open"
              /\ life_pc' = "verify"
              /\ UNCHANGED life_exit
         ELSE /\ life_pc' = "exited"
              /\ life_exit' = o
              /\ UNCHANGED session
    /\ UNCHANGED <<life_fn, life_step, cleanups>>
    /\ UNCHANGED <<varsSel, varsProbe, varsExec, varsAgg, varsMon>>

\* if not verify_connection(session): session.cleanup(); sys.exit(1).
\* verify_connection turns an Exception into False and lets a
\* KeyboardInterrupt through; the statement stands before the try block
LifeVerify ==
    /\ life_pc = "verify"
    /\ \E o \in {"True", "False", "KeyboardInterrupt"} :
         CASE o = "True" ->
                /\ life_pc' = "body"
                /\ life_step' = 1
                /\ UNCHANGED <<session, cleanups, life_exit>>
           [] o = "False" ->
                /\ session' = "closed"
                /\ cleanups' = cleanups + 1
                /\ life_pc' = "exited"
                /\ life_exit' = "SystemExit"
                /\ UNCHANGED life_step
           [] OTHER ->
                /\ life_pc' = "exited"
                /\ life_exit' = "KeyboardInterrupt"
                /\ UNCHANGED <<session, cleanups, life_step>>
    /\ UNCHANGED life_fn
    /\ UNCHANGED <<varsSel, varsProbe, varsExec, varsAgg, varsMon>>

\* one statement of the try block
LifeStep ==
    /\ life_pc = "body"
    /\ LET st == LifeSteps(life_fn)[life_step]
       IN  \E o \in {"ok", "Exception", "KeyboardInterrupt"} \cup st.leaves :
             CASE o = "ok" ->
                    /\ IF life_step < Len(LifeSteps(life_fn))
                       THEN /\ life_step' = life_step + 1
                            /\ UNCHANGED <<life_pc, life_exit>>
                       ELSE /\ life_pc' = "finally"
                            /\ life_exit' = "return"
                            /\ UNCHANGED life_step
                    /\ UNCHANGED <<session, cleanups>>
               [] o \in {"Exception", "KeyboardInterrupt"} ->
                    /\ life_pc' = "except"
                    /\ life_exit' = o
                    /\ UNCHANGED <<life_step, session, cleanups>>
               [] OTHER ->
                    /\ life_pc' = "finally"
                    /\ life_exit' = o
                    /\ session' = IF st.inline THEN "closed" ELSE session
                    /\ cleanups' = IF st.inline THEN cleanups + 1 ELSE cleanups
                    /\ UNCHANGED life_step
    /\ UNCHANGED life_fn
    /\ UNCHANGED <<varsSel, varsProbe, varsExec, varsAgg, varsMon>>

\* except KeyboardInterrupt / except Exception: the handler ends, or is
\* itself interrupted
LifeHandler ==
    /\ life_pc = "except"
    /\ \E o \in {"return", "KeyboardInterrupt"} : life_exit' = o
    /\ life_pc' = "finally"
    /\ UNCHANGED <<life_fn, life_step, session, cleanups>>
    /\ UNCHANGED <<varsSel, varsProbe, varsExec, varsAgg, varsMon>>

\* finally: session.cleanup()
LifeFinally ==
    /\ life_pc = "finally"
    /\ session' = "closed"
    /\ cleanups' = cleanups + 1
    /\ life_pc' = "exited"
    /\ UNCHANGED <<life_fn, life_step, life_exit>>
    /\ UNCHANGED <<varsSel, varsProbe, varsExec, varsAgg, varsMon>>

IdleLife ==
    /\ life_fn = "none"
    /\ life_pc = "idle"
    /\ life_step = 0
    /\ session = "none"
    /\ cleanups = 0
    /\ life_exit = "running"

---------------------------------------------------------------------------
(* The specifications.                                                     *)

IdleSel ==
    /\ sel_pc = "idle"
    /\ sel_speed = <<0, 1>>
    /\ sel_size = 0
    /\ sel_base = 0
    /\ sel_out = [raised |-> FALSE, level |-> 0]
    /\ sel_file_out = 0

IdleProbe ==
    /\ p_pc = "idle"
    /\ p_i = 0
    /\ p_samples = 0
    /\ upload_speeds = <<>>
    /\ download_speeds = <<>>
    /\ latencies = <<>>
    /\ p_ret = NoResult
    /\ p_log = <<>>
    /\ p_local = {}
    /\ p_remote = {}

IdleAgg ==
    /\ agg_pc = "idle"
    /\ agg_in = <<>>
    /\ agg_out = NoStats

\* the state of run_performance_test at its first pair, called with c in
\* an environment e
ExecStart(c, e) ==
    /\ pc = "prepare"
    /\ cfg = c
    /\ run_num = 1
    /\ file_idx = 1
    /\ results = <<>>
    /\ failed_runs = 0
    /\ orig = InitialFiles
    /\ remote = [n \in FileNames |-> NoObj]
    /\ tmp = [zst |-> NoFile, tmp |-> NoFile, dat |-> NoFile]
    /\ orphans = {}
    /\ cur = FreshPair(FALSE)
    /\ env = e

IdleExec ==
    /\ pc = "idle"
    /\ cfg = [test_files |-> <<>>, test_runs |-> 0,
              base_compression_level |-> 0, enable_verification |-> FALSE,
              enable_metadata |-> FALSE, network_speed_mbps |-> <<>>]
    /\ run_num = 0
    /\ file_idx = 0
    /\ results = <<>>
    /\ failed_runs = 0
    /\ orig = InitialFiles
    /\ remote = [n \in FileNames |-> NoObj]
    /\ tmp = [zst |-> NoFile, tmp |-> NoFile, dat |-> NoFile]
    /\ orphans = {}
    /\ cur = FreshPair(FALSE)
    /\ env = [budget |-> 0, kinds |-> {}]

\* ---- the selector
InitSel ==
    /\ sel_pc = "in"
    /\ sel_speed \in Speeds
    /\ sel_size \in SelSizes
    /\ sel_base \in SelBases
    /\ sel_out = [raised |-> FALSE, level |-> 0]
    /\ sel_file_out = 0
    /\ IdleProbe
    /\ IdleExec
    /\ IdleAgg
    /\ IdleMon
    /\ IdleLife

NextSel == SelectBase \/ SelectFile

SpecSel == InitSel /\ [][NextSel]_vars

\* ---- the prober
MaxSamples == 3

InitProbe ==
    /\ p_pc = "loop"
    /\ p_i = 0
    /\ p_samples \in 0..MaxSamples
    /\ upload_speeds = <<>>
    /\ download_speeds = <<>>
    /\ latencies = <<>>
    /\ p_ret = NoResult
    /\ p_log = <<>>
    /\ p_local = {}
    /\ p_remote = {}
    /\ IdleSel
    /\ IdleExec
    /\ IdleAgg
    /\ IdleMon
    /\ IdleLife

NextProbe == ProbeSample \/ ProbeReturn

SpecProbe == InitProbe /\ [][NextProbe]_vars

\* ---- the executor
\* the speed the benchmark is called with: None, or 5 MB/s with the base
\* level select_compression_level gives for it, as main() does
ExecSpeeds == {<<>>, << <<5, 1>> >>}
BaseFor(speed_opt) ==
    IF speed_opt = <<>> THEN 0 ELSE select_compression_level(speed_opt[1]).level

ExecConfigs ==
    { [test_files |-> <<"a", "e">>, test_runs |-> MaxRuns,
       base_compression_level |-> BaseFor(s), enable_verification |-> v,
       enable_metadata |-> m, network_speed_mbps |-> s] :
        s \in ExecSpeeds, v \in BOOLEAN, m \in BOOLEAN }

Init ==
    /\ \E c \in ExecConfigs :
         ExecStart(c, [budget |-> MaxFaults, kinds |-> FaultKinds])
    /\ IdleSel
    /\ IdleProbe
    /\ IdleAgg
    /\ IdleMon
    /\ IdleLife

Next ==
    \/ Prepare
    \/ Upload
    \/ Meta
    \/ Download
    \/ DecompressStep
    \/ Verify
    \/ Record
    \/ Handler
    \/ NextPair
    \/ Return

Spec == Init /\ [][Next]_vars

\* ---- the executor called on the one file "s", too short for zstd to
\* shrink, at a measured speed of 5 MB/s
InitSmall ==
    /\ \E v \in BOOLEAN, m \in BOOLEAN :
         ExecStart([test_files |-> <<"s">>, test_runs |-> MaxRuns,
                    base_compression_level |-> BaseFor(<< <<5, 1>> >>),
                    enable_verification |-> v, enable_metadata |-> m,
                    network_speed_mbps |-> << <<5, 1>> >>],
                   [budget |-> MaxFaults, kinds |-> FaultKinds])
    /\ IdleSel
    /\ IdleProbe
    /\ IdleAgg
    /\ IdleMon
    /\ IdleLife

SpecSmall == InitSmall /\ [][Next]_vars

\* ---- the resource monitor: start(), any number of get_stats() and one
\* stop() in the owning thread, the monitor loop in its own thread
InitMon ==
    /\ monitoring = FALSE
    /\ cpu_samples = <<>>
    /\ memory_samples = <<>>
    /\ mon_thread = "none"
    /\ mon_main = "init"
    /\ mon_ret = NoMonResult
    /\ IdleSel
    /\ IdleProbe
    /\ IdleExec
    /\ IdleAgg
    /\ IdleLife

NextMon ==
    \/ MonStart
    \/ LoopTest
    \/ LoopCpu
    \/ LoopMem
    \/ GetStatsBegin
    \/ GetStatsEnd
    \/ MonStop
    \/ MonJoin

SpecMon == InitMon /\ [][NextMon]_vars

\* ---- the session lifecycle of main() and of run_demo()
InitLife ==
    /\ life_fn \in LifeFns
    /\ life_pc = "create"
    /\ life_step = 0
    /\ session = "none"
    /\ cleanups = 0
    /\ life_exit = "running"
    /\ IdleSel
    /\ IdleProbe
    /\ IdleExec
    /\ IdleAgg
    /\ IdleMon

NextLife ==
    \/ LifeCreate
    \/ LifeVerify
    \/ LifeStep
    \/ LifeHandler
    \/ LifeFinally

SpecLife == InitLife /\ [][NextLife]_vars

\* ---- the executor called as main() calls it, with TEST_RUNS runs of two
\* files, in an environment whose only fault is a put that raises
TenFaults == 6

InitTen ==
    /\ \E v \in BOOLEAN, m \in BOOLEAN :
         ExecStart([test_files |-> <<"a", "e">>, test_runs |-> TEST_RUNS,
                    base_compression_level |-> BaseFor(<< <<5, 1>> >>),
                    enable_verification |-> v, enable_metadata |-> m,
                    network_speed_mbps |-> << <<5, 1>> >>],
                   [budget |-> TenFaults, kinds |-> {"put_raise"}])
    /\ IdleSel
    /\ IdleProbe
    /\ IdleAgg
    /\ IdleMon
    /\ IdleLife

SpecTen == InitTen /\ [][Next]_vars

\* ---- main(): the probe, the base level, then the benchmark
ENABLE_FILE_VERIFICATION == TRUE
ENABLE_METADATA == TRUE

\* the faults the benchmark may meet when main() runs it, each at most once
MainFaultKinds == {"get_raise"}

\* avg_speed = (upload_speed + download_speed) / 2
AvgSpeed(r) == RDivInt(RAdd(r.upload, r.download), 2)

\* a base level taken from the table although the probe failed
MainLevelGuessed(r) ==
    select_compression_level(IF r.none THEN <<0, 1>> ELSE AvgSpeed(r)).level
\* compression_level of main (lines 972-985): 0 when the probe failed
MainLevel(r) ==
    IF ENABLE_ADAPTIVE_COMPRESSION
    THEN IF r.none THEN 0 ELSE select_compression_level(AvgSpeed(r)).level
    ELSE 0

\* avg_speed passed as network_speed_mbps (lines 990-992): None unless the
\* probe returned speeds
MainSpeed(r) ==
    IF ENABLE_ADAPTIVE_COMPRESSION /\ ~r.none THEN <<AvgSpeed(r)>> ELSE <<>>

\* the arguments of run_performance_test on lines 994-997
MainConfig(r) ==
    [test_files |-> <<"a", "e">>, test_runs |-> TEST_RUNS,
     base_compression_level |-> MainLevel(r),
     enable_verification |-> ENABLE_FILE_VERIFICATION,
     enable_metadata |-> ENABLE_METADATA,
     network_speed_mbps |-> MainSpeed(r)]

\* lines 976-997: the probe has returned; main picks the base level and
\* calls run_performance_test.  The locals of the probe are gone with its
\* frame; the files and objects it left stay.
MainCall ==
    /\ p_pc = "returned"
    /\ pc = "idle"
    /\ p_pc' = "done"
    /\ p_i' = 0
    /\ upload_speeds' = <<>>
    /\ download_speeds' = <<>>
    /\ latencies' = <<>>
    /\ p_log' = <<>>
    /\ UNCHANGED <<p_samples, p_ret, p_local, p_remote>>
    /\ pc' = "prepare"
    /\ cfg' = MainConfig(p_ret)
    /\ run_num' = 1
    /\ file_idx' = 1
    /\ results' = <<>>
    /\ failed_runs' = 0
    /\ cur' = FreshPair(FALSE)
    /\ env' = [budget |-> Cardinality(MainFaultKinds),
               kinds |-> MainFaultKinds]
    /\ UNCHANGED <<orig, remote, tmp, orphans>>
    /\ UNCHANGED <<varsSel, varsAgg, varsMon, varsLife>>

InitMain ==
    /\ p_pc = "loop"
    /\ p_i = 0
    /\ p_samples = NETWORK_TEST_SAMPLES
    /\ upload_speeds = <<>>
    /\ download_speeds = <<>>
    /\ latencies = <<>>
    /\ p_ret = NoResult
    /\ p_log = <<>>
    /\ p_local = {}
    /\ p_remote = {}
    /\ IdleSel
    /\ IdleExec
    /\ IdleAgg
    /\ IdleMon
    /\ IdleLife

NextMain ==
    \/ ProbeSample
    \/ ProbeReturn
    \/ MainCall
    \/ Next

SpecMain == InitMain /\ [][NextMain]_vars

\* ---- the aggregator
InitAgg ==
    /\ agg_pc = "in"
    /\ agg_in \in SeqsUpTo(AggRecords, MaxRecords)
    /\ agg_out = NoStats
    /\ IdleSel
    /\ IdleProbe
    /\ IdleExec
    /\ IdleMon
    /\ IdleLife

NextAgg == Aggregate

SpecAgg == InitAgg /\ [][NextAgg]_vars

---------------------------------------------------------------------------
(* The properties.                                                         *)

\* network_speed_mbps >= n, for an integer n
SpeedAtLeast(speed, n) == speed[1] >= n * speed[2]

\* C1: select_compression_level returns 1 for every speed >= 100 MB/s, 3
\* for a speed in [50, 100), 6 in [10, 50), 9 in [1, 10) and 15 below 1; a
\* speed equal to a threshold gets the level of the tier of that threshold.
\* (Speeds are sizes over elapsed times, so none is negative.)
C1_BaseLevelByTier ==
    sel_pc \in {"base", "file"} =>
        /\ ~sel_out.raised
        /\ sel_out.level =
             IF SpeedAtLeast(sel_speed, 100) THEN 1
             ELSE IF SpeedAtLeast(sel_speed, 50) THEN 3
             ELSE IF SpeedAtLeast(sel_speed, 10) THEN 6
             ELSE IF SpeedAtLeast(sel_speed, 1) THEN 9
             ELSE 15

\* a speed of exactly 50 MB/s got level 3
C1_Witness ==
    /\ sel_pc = "base"
    /\ REq(sel_speed, <<50, 1>>)
    /\ sel_out.level = 3

\* a record of the current (run, file) pair is in results
PairRecorded ==
    /\ results # <<>>
    /\ results[Len(results)].run = run_num
    /\ results[Len(results)].filename = TestFile

\* the decompressed file of the pair has the size, and the bytes, of the
\* original file
SameSize  == cur.final_bytes.size = cur.orig_bytes.size
SameBytes == calculate_file_checksum(cur.final_bytes)
                 = calculate_file_checksum(cur.orig_bytes)

\* C2 as stated: a record is appended for a pair only if the decompressed
\* file has the size and the SHA-256 of the original, for every setting of
\* the verification and metadata flags.
C2_RecordOnlyIfSizeAndHashMatch ==
    (pc \in {"end", "returned"} /\ PairRecorded) => (SameSize /\ SameBytes)

\* C2 as amended: a record is appended for a pair only if the decompressed
\* file has the size of the original and, when enable_verification is set,
\* its SHA-256; with enable_verification unset the hashes are not compared.
C2_RecordOnlyIfVerified ==
    (pc \in {"end", "returned"} /\ PairRecorded) =>
        /\ SameSize
        /\ cfg.enable_verification => SameBytes
        /\ cur.outcome = "recorded" /\ cur.counted = 0

\* a pair that was compressed, tagged and decompressed was recorded with
\* verification enabled: its final file has the size and hash of the original
C2_Witness ==
    /\ pc = "end"
    /\ cfg.enable_verification
    /\ cfg.enable_metadata
    /\ cur.compression_level > 0
    /\ cur.decompressed_file = "dat"
    /\ PairRecorded
    /\ cur.outcome = "recorded"
    /\ SameSize
    /\ SameBytes

\* C3: when compressing a file raises or produces no artifact, the pair is
\* counted as failed, the error does not leave run_performance_test and
\* the executor goes on to the remaining pairs.
C3_CompressFailureContained ==
    (cur.faults \cap {"compress_raise", "compress_noartifact"} # {}) =>
        /\ pc # "raised"
        /\ cur.outcome = "failed"
        /\ cur.counted = 1

\* the number of pairs in a call, and the number begun so far
TotalAttempts  == cfg.test_runs * Len(cfg.test_files)
AttemptsIssued == (run_num - 1) * Len(cfg.test_files) + file_idx

C5_MetadataBestEffort ==
    ( /\ pc = "end"
      /\ cfg.enable_metadata
      /\ cur.compression_level > 0
      /\ cur.faults # {}
      /\ cur.faults \subseteq {"meta_none", "meta_partial"} )
    => PairRecorded

\* C6: after a failed attempt the remote object of the pair and every
\* local temp file created for it are gone.
C6_FailedPairCleanedUp ==
    (pc = "end" /\ cur.outcome = "failed") =>
        /\ ~Exists(tmp.zst)
        /\ ~Exists(tmp.dat)
        /\ cur.dl_mine => ~Exists(tmp.tmp)
        /\ ("remote" \in cur.made) => ~Exists(remote[TestFile].obj)

\* C7: at the return, records plus failure counter equal the number of
\* (run, file) attempts.
C7_EveryAttemptCountedOnce ==
    (pc = "returned") => (Len(results) + failed_runs = TotalAttempts)

\* the records of the current pair
RecordsOfPair ==
    { i \in 1..Len(results) :
        results[i].run = run_num /\ results[i].filename = TestFile }

\* C8: a pair whose round trip is verified gets exactly one record, and
\* afterwards its temp files and its remote object are gone.
C8_VerifiedPairRecorded ==
    (pc = "end" /\ cur.verified) =>
        /\ Cardinality(RecordsOfPair) = 1
        /\ ~Exists(tmp.zst)
        /\ ~Exists(tmp.tmp)
        /\ ~Exists(tmp.dat)
        /\ ~Exists(remote[TestFile].obj)

\* an iteration of the probe whose upload and download were both timed
Measured(e) ==
    /\ e.outcome.put = "ok" /\ e.outcome.up_time > 0
    /\ e.outcome.get = "ok" /\ e.outcome.down_time > 0

\* the arithmetic mean of f over the entries of a non-empty sequence
MeanOver(ms, f(_)) ==
    RDivInt(RSum([i \in 1..Len(ms) |-> f(ms[i])]), Len(ms))

SizeOverUp(e)   == <<NETWORK_TEST_SIZE_MB, e.outcome.up_time>>
SizeOverDown(e) == <<NETWORK_TEST_SIZE_MB, e.outcome.down_time>>
HalfRoundTripMs(e) ==
    <<(e.outcome.up_time + e.outcome.down_time) * 500, 1>>

RemoteRaised(e) ==
    \/ e.outcome.put = "raise"
    \/ e.outcome.get = "raise"
    \/ e.outcome.unlink = "raise"

\* C10: each of the `samples` iterations is attempted exactly once, and an
\* iteration in which put, get or unlink raised contributes a value to
\* none of the three lists.
C10_RaisingSampleSkipped ==
    /\ (p_pc = "returned") => (Len(p_log) = p_samples)
    /\ \A i \in 1..Len(p_log) : RemoteRaised(p_log[i]) => ~p_log[i].appended
    /\ Len(upload_speeds) = Len(SelectSeq(p_log, LAMBDA e : e.appended))

\* C11: after test_network_speed has returned, no local temp file and no
\* remote .speedtest object of any sample remains, also for samples that
\* failed part-way.
C11_ProbeLeavesNothing ==
    (p_pc = "returned") => (p_local = {} /\ p_remote = {})

\* C12: in main(), when the probe failed the base level is 0, no per-file
\* level is selected and every record of the invocation has
\* compression_level 0.
C12_ProbeFailureDisablesCompression ==
    (p_ret.none /\ pc # "idle") =>
        /\ cfg.base_compression_level = 0
        /\ cur.compression_level = 0
        /\ \A i \in 1..Len(results) : results[i].compression_level = 0

\* main() ran the benchmark to its end after a failed probe, and records
\* were emitted
C12_Witness ==
    /\ p_pc = "done"
    /\ p_ret.none
    /\ pc = "returned"
    /\ Len(results) = TEST_RUNS
    /\ results[1].compression_level = 0

\* the level after the size/speed adjustment of the call that has returned
AdjustedLevel == SizeAdjust(sel_size, sel_speed, sel_base)

\* C13: select_compression_level_for_file returns a level in 1..22 for
\* every file size, network speed and base level, 0 and negative base
\* levels included.
C13_FileLevelInRange ==
    (sel_pc = "file") => (sel_file_out >= 1 /\ sel_file_out <= 22)

\* a negative base level, left alone by the size rules, came out as 1
C13_Witness ==
    /\ sel_pc = "file"
    /\ sel_base < 0
    /\ sel_size = 100 * MB
    /\ sel_file_out = 1

\* C14: for a file smaller than 1 MB and a base level >= 1 the level
\* returned is 1 at every network speed.
C14_SmallFileGetsOne ==
    (sel_pc = "file" /\ sel_size < MB /\ sel_base >= 1) => (sel_file_out = 1)

\* size 500 KB, speed 5 MB/s, base 9 gave 1
C14_Witness ==
    /\ sel_pc = "file"
    /\ sel_size = 512000
    /\ REq(sel_speed, <<5, 1>>)
    /\ sel_base = 9
    /\ sel_file_out = 1

C16_LargeSlowRaisedByTwo ==
    (sel_pc = "file" /\ sel_size > 100 * MB /\ SpeedBelow(sel_speed, 10)) =>
        LET expected == IF sel_base + 2 <= 15 THEN sel_base + 2 ELSE 15
        IN  /\ AdjustedLevel = expected
            /\ ~GuardFires(expected, sel_speed)
            /\ sel_file_out = (IF expected < 1 THEN 1 ELSE expected)
            /\ (sel_size = 200 * MB /\ REq(sel_speed, <<5, 1>>) /\ sel_base = 9)
                  => sel_file_out = 11

\* size 200 MB, speed 5 MB/s, base 9 gave 11
C16_Witness ==
    /\ sel_pc = "file"
    /\ sel_size = 200 * MB
    /\ REq(sel_speed, <<5, 1>>)
    /\ sel_base = 9
    /\ sel_file_out = 11

\* the case of C17: a file above 100 MB on a network of 10 <= speed < 50
LargeMidCase ==
    /\ sel_pc = "file"
    /\ sel_size > 100 * MB
    /\ ~SpeedBelow(sel_speed, 10)
    /\ SpeedBelow(sel_speed, 50)

\* C17 as stated: in that case the adjusted level is never lower than the
\* base level and never above 9.
C17_LargeMidNeverLowered ==
    LargeMidCase => (AdjustedLevel >= sel_base /\ AdjustedLevel <= 9)

\* C17: in that case the adjusted level is min(9, base + 1): never above
\* 9, and not lower than the base level when the base level is at most 9.
C17_LargeMidRaisedByOneCapNine ==
    LargeMidCase =>
        /\ AdjustedLevel = (IF sel_base + 1 <= 9 THEN sel_base + 1 ELSE 9)
        /\ AdjustedLevel <= 9
        /\ (sel_base <= 9) => (AdjustedLevel >= sel_base)

\* a base level of 15 was brought down to 9 by the cap
C17_Witness ==
    /\ LargeMidCase
    /\ sel_base = 15
    /\ AdjustedLevel = 9

\* the estimated compression speed of level l is at least half the speed
GuardSatisfied(l, speed) == 2 * EstimatedCompSpeed(l) * speed[2] >= speed[1]

\* C18: when the guard fires on an adjusted level above 3, the level
\* returned is the first of 6 (for an adjusted level above 6), 3 whose
\* estimated compression speed is at least half the network speed.
C18_GuardStepsDownUntilSatisfied ==
    ( /\ sel_pc = "file"
      /\ AdjustedLevel > 3
      /\ GuardFires(AdjustedLevel, sel_speed)
      /\ GuardSatisfied(3, sel_speed) )
    => sel_file_out = (IF AdjustedLevel > 6 /\ GuardSatisfied(6, sel_speed)
                       THEN 6 ELSE 3)

\* the sum of field f over the records at the positions I of the input
RECURSIVE SumAt(_, _)
SumAt(I, f) ==
    IF I = {} THEN 0
    ELSE LET i == CHOOSE x \in I : TRUE
         IN  agg_in[i][f] + SumAt(I \ {i}, f)

\* C19: calculate_aggregate_statistics returns None exactly for the empty
\* list; otherwise total_runs is the number of records, each total is the
\* sum of its field, each average is the sum divided by total_runs, and
\* for one record every average is that record's field.
C19_TotalsAndAverages ==
    (agg_pc = "done") =>
        /\ agg_out.none <=> (agg_in = <<>>)
        /\ ~agg_out.none =>
             LET n == Len(agg_in)
                 I == 1..n
                 ups == [i \in I |-> agg_in[i].upload_throughput_mbps]
                 downs == [i \in I |-> agg_in[i].download_throughput_mbps]
             IN  /\ agg_out.total_runs = n
                 /\ agg_out.total_upload_time = SumAt(I, "upload_time")
                 /\ agg_out.total_download_time = SumAt(I, "download_time")
                 /\ agg_out.total_compress_time = SumAt(I, "compress_time")
                 /\ agg_out.total_decompress_time
                        = SumAt(I, "decompress_time")
                 /\ REq(agg_out.avg_upload_time,
                        <<SumAt(I, "upload_time"), n>>)
                 /\ REq(agg_out.avg_download_time,
                        <<SumAt(I, "download_time"), n>>)
                 /\ REq(agg_out.avg_upload_throughput, RDivInt(RSum(ups), n))
                 /\ REq(agg_out.avg_download_throughput,
                        RDivInt(RSum(downs), n))
                 /\ (n = 1) =>
                      /\ REq(agg_out.avg_upload_time,
                             <<agg_in[1].upload_time, 1>>)
                      /\ REq(agg_out.avg_download_time,
                             <<agg_in[1].download_time, 1>>)
                      /\ REq(agg_out.avg_upload_throughput,
                             agg_in[1].upload_throughput_mbps)
                      /\ REq(agg_out.avg_download_throughput,
                             agg_in[1].download_throughput_mbps)

\* three records of two files with different upload times were aggregated
C19_Witness ==
    /\ agg_pc = "done"
    /\ Len(agg_in) = 3
    /\ agg_in[1].filename # agg_in[2].filename
    /\ agg_in[1].upload_time # agg_in[3].upload_time
    /\ agg_out.total_runs = 3
    /\ agg_out.total_upload_time = 6

\* the positions of the input at which a file name appears first
FirstSeenAt ==
    { i \in 1..Len(agg_in) :
        \A j \in 1..(i - 1) : agg_in[j].filename # agg_in[i].filename }

\* C20: files_tested lists each distinct file name once, in order of first
\* appearance; the group of a name holds exactly the records of that name
\* in input order; the group sizes sum to total_runs.
C20_GroupsInFirstSeenOrder ==
    (agg_pc = "done" /\ ~agg_out.none) =>
        LET ft == agg_out.files_tested
            fd == agg_out.files_data
        IN  /\ Len(ft) = Cardinality(FirstSeenAt)
            /\ \A i \in FirstSeenAt :
                 ft[Cardinality({j \in FirstSeenAt : j <= i})]
                     = agg_in[i].filename
            /\ Len(fd) = Len(ft)
            /\ \A k \in 1..Len(fd) :
                 /\ fd[k].fname = ft[k]
                 /\ fd[k].rows
                      = SelectSeq(agg_in, LAMBDA r : r.filename = ft[k])
            /\ SumField([k \in 1..Len(fd) |-> [size |-> Len(fd[k].rows)]],
                        "size") = agg_out.total_runs

\* records of "e", "a", "e" in this order gave files_tested = <<"e", "a">>
\* and a group of two for "e"
C20_Witness ==
    /\ agg_pc = "done"
    /\ Len(agg_in) = 3
    /\ agg_in[1].filename = "e"
    /\ agg_in[2].filename = "a"
    /\ agg_in[3].filename = "e"
    /\ agg_in[1] # agg_in[3]
    /\ agg_out.files_tested = <<"e", "a">>
    /\ Len(agg_out.files_data[1].rows) = 2

\* C24: a record with compression_level 0 has transfer size = original
\* size, ratio 0 and decompress_time 0; for a pair at level 0 the codec
\* writes no file and the downloaded file is the file that is verified.
C24_LevelZeroPassThrough ==
    /\ \A i \in 1..Len(results) :
         (results[i].compression_level = 0) =>
            /\ results[i].transfer_size_bytes = results[i].original_size_bytes
            /\ results[i].compression_ratio = <<0, 1>>
            /\ results[i].decompress_time = "zero"
    /\ (pc \notin {"idle", "prepare"} /\ cur.upload_file = "orig") =>
            /\ cur.compression_level = 0
            /\ cur.made \cap {"zst", "dat"} = {}
            /\ ~Exists(tmp.zst) /\ ~Exists(tmp.dat)
            /\ cur.decompressed_file \in {"none", "tmp"}
            /\ (pc = "record") => (cur.final_bytes = tmp.tmp)

\* a pair at level 0 was recorded with its downloaded file verified
C24_Witness ==
    /\ pc = "end"
    /\ cur.upload_file = "orig"
    /\ cur.outcome = "recorded"
    /\ cur.decompressed_file = "tmp"
    /\ PairRecorded
    /\ results[Len(results)].compression_level = 0
    /\ results[Len(results)].decompress_time = "zero"

\* C25: in main() the probe is over before the benchmark starts, the
\* benchmark is called with the estimate of that one probe, and the records
\* of one file of unchanged size carry the same compression_level.
C25_OneProbeOneLevelPerFile ==
    /\ (p_pc \in {"loop", "returned"}) => (pc = "idle" /\ results = <<>>)
    /\ (pc # "idle") =>
          /\ p_pc = "done"
          /\ cfg.network_speed_mbps = MainSpeed(p_ret)
          /\ cfg.base_compression_level = MainLevel(p_ret)
    /\ \A i, j \in 1..Len(results) :
          ( /\ results[i].filename = results[j].filename
            /\ results[i].original_size_bytes = results[j].original_size_bytes )
          => results[i].compression_level = results[j].compression_level

\* after a successful probe the benchmark returned records of file "a" for
\* the first and the last run, both compressed at the same level
C25_Witness ==
    /\ p_pc = "done"
    /\ ~p_ret.none
    /\ pc = "returned"
    /\ \E i, j \in 1..Len(results) :
          /\ results[i].filename = "a" /\ results[j].filename = "a"
          /\ results[i].run = 1 /\ results[j].run = TEST_RUNS
          /\ results[i].compression_level > 0
          /\ results[i].compression_level = results[j].compression_level

\* C27: every test file that existed at the start still exists.
C27_OriginalsKept ==
    \A n \in FileNames : Exists(InitialFiles[n]) => Exists(orig[n])

\* C28: a stored or downloaded size of 0 fails verification also when 0 is
\* expected; a zero-length file sent at level 0 fails at the upload
\* verification, before any download, and is never recorded.
C28_ZeroLengthFails ==
    /\ ~verify_irods_upload(<<0>>, 0)
    /\ ~verify_local_download(Empty, 0)
    /\ ( /\ pc \in {"meta", "download", "decompress", "verify", "record"}
         /\ cur.upload_file = "orig" )
       => cur.original_size # 0
    /\ \A i \in 1..Len(results) :
         ~(results[i].compression_level = 0
             /\ results[i].original_size_bytes = 0)

\* the zero-length file "e" was sent at level 0 with no fault, failed the
\* upload verification and was counted as failed with no download
C28_Witness ==
    /\ pc = "end"
    /\ TestFile = "e"
    /\ cur.upload_file = "orig"
    /\ cur.original_size = 0
    /\ cur.faults = {}
    /\ "remote" \in cur.made
    /\ ~cur.dl_mine
    /\ cur.outcome = "failed"
    /\ ~PairRecorded

\* C30: when the base level is the one select_compression_level returns
\* for the same speed, the guard leaves the adjusted level alone and the
\* level returned is the adjusted level clamped to 1..22.
C30_GuardInertInPipeline ==
    (sel_pc = "file" /\ ~sel_out.raised /\ sel_base = sel_out.level) =>
        /\ ThroughputGuard(AdjustedLevel, sel_speed) = AdjustedLevel
        /\ sel_file_out = (IF AdjustedLevel < 1 THEN 1
                           ELSE IF AdjustedLevel > 22 THEN 22
                           ELSE AdjustedLevel)

\* 200 MB at 30 MB/s: base 6, raised to 7 and returned as 7
C30_Witness ==
    /\ sel_pc = "file"
    /\ REq(sel_speed, <<30, 1>>)
    /\ sel_size = 200 * MB
    /\ sel_out.level = 6
    /\ sel_base = 6
    /\ sel_file_out = 7

\* C23: the compression_ratio of every record is at least 0 and below 100.
C23_RatioInRange ==
    \A i \in 1..Len(results) :
        LET r == results[i].compression_ratio
        IN  r[1] >= 0 /\ r[1] < 100 * r[2]

\* the successions of steps of one pair: compress (prepare), upload,
\* metadata, download, decompress, verify, record, with the ways out
StepOrder ==
    { <<"prepare", "upload">>, <<"upload", "meta">>, <<"meta", "download">>,
      <<"download", "decompress">>, <<"decompress", "verify">>,
      <<"verify", "record">>, <<"record", "end">>,
      <<"prepare", "end">>, <<"upload", "end">>, <<"download", "end">>,
      <<"decompress", "end">>, <<"verify", "end">>,
      <<"prepare", "raised">>, <<"upload", "handler">>,
      <<"download", "handler">>, <<"decompress", "handler">>,
      <<"verify", "handler">>, <<"record", "handler">>,
      <<"handler", "end">>, <<"end", "prepare">>, <<"end", "returned">> }

\* C26: the steps of a pair follow one another only in the order compress,
\* upload, metadata, download, decompress, verify, record; the metadata and
\* download steps follow only a stored object of the expected non-zero
\* size, the decompression only a downloaded file of the expected non-zero
\* size; once a pair has failed, only its exception handler and the move to
\* the next pair follow, and no record is appended; a record is appended
\* only by the record step.
C26_StepsInOrderFailedAbsorbing ==
    [][ /\ (pc' # pc) => (<<pc, pc'>> \in StepOrder)
        /\ (pc = "upload" /\ pc' = "meta") =>
              /\ Exists(remote'[TestFile].obj)
              /\ remote'[TestFile].obj.size = cur.transfer_size
              /\ cur.transfer_size # 0
        /\ (pc = "download" /\ pc' = "decompress") =>
              /\ Exists(tmp'.tmp)
              /\ tmp'.tmp.size = cur.transfer_size
              /\ cur.transfer_size # 0
        /\ (cur.outcome = "failed") =>
              /\ pc' \in {"handler", "end", "prepare", "returned"}
              /\ results' = results
        /\ (results' # results) =>
              /\ pc = "record"
              /\ pc' = "end"
              /\ results' = Append(results, ResultRecord)
      ]_vars

\* the upload of "a" stored an object of another size: the pair failed at
\* the upload verification, with no download and no record
C26_Witness ==
    /\ pc = "end"
    /\ TestFile = "a"
    /\ cur.faults = {"put_resized"}
    /\ "remote" \in cur.made
    /\ ~cur.dl_mine
    /\ cur.outcome = "failed"
    /\ ~PairRecorded

\* C21: when main() or run_demo() has exited after its session was
\* created, session.cleanup() has been called.
C21_SessionReleasedOnExit ==
    (life_pc = "exited" /\ session # "none") => cleanups >= 1

\* C22: once stop() has returned, the statistics it returned are those of
\* all the samples in cpu_samples and memory_samples.
C22_StopIsJoinBoundary ==
    (mon_main = "stopped") =>
        /\ mon_ret.samples = Len(cpu_samples)
        /\ mon_ret.avg_cpu = AvgOrZero(cpu_samples)
        /\ mon_ret.avg_memory = AvgOrZero(memory_samples)

\* C29: get_stats() does not raise, and the averages it returns are taken
\* over equally many CPU and memory samples.
C29_GetStatsNeverRaises ==
    /\ mon_ret.kind # "ZeroDivisionError"
    /\ (mon_ret.kind = "stats") => (mon_ret.avg_cpu[2] = mon_ret.avg_memory[2])

====
